---- MODULE Spec2Model ----
(***************************************************************************)
(* A model of osquery/extensions/extensions.cpp: the bounded-wait prober   *)
(* (applyExtensionDelay), the endpoint-active probe (extensionPathActive), *)
(* the extension-side and manager-side watchers, the host-side RPC facade, *)
(* the extension's and the manager's bootstrap (startExtension,            *)
(* startExtensionManager) and the loaders of extensions and modules.       *)
(* The socket-file platform (the #else branches) is modelled.              *)
(*                                                                         *)
(* Representation of size_t: TLC integers cannot hold 2^64, so a size_t    *)
(* value v is represented by the integer s with v = s mod 2^64 and         *)
(* -2^63 <= s < 2^63 (its two's-complement reading).  Converting an int to *)
(* size_t is then sign extension, and the unsigned order is ULess.         *)
(***************************************************************************)
EXTENDS Integers, Sequences, FiniteSets, TLC

VARIABLES
  FLAGS_extensions_timeout, \* the flag's text, a tuple of characters
  FLAGS_disable_extensions, \* --disable_extensions
  endpoint,   \* what the filesystem and the transport answer for each socket
  dpc,        \* position in applyExtensionDelay: "idle", "loop", "ret"
  delay,      \* size_t delay
  timeout,    \* size_t timeout
  status,     \* Status status of applyExtensionDelay
  stop,       \* the stop flag the last predicate call left
  attempts,   \* predicate calls of the current applyExtensionDelay run
  sleeps,     \* sleepFor calls of the current applyExtensionDelay run
  ppath,      \* extensionPathActive: the captured path (a route UUID, 0 = manager)
  use_timeout,\* extensionPathActive: the captured use_timeout
  cpc,        \* position of the running facade call: "idle", "probe", "rpc", "done"
  call,       \* the running call: [op, form, path, given], given being what the
              \* caller's container held at the call
  probed,     \* the running call has started extensionPathActive
  rpcs,       \* RPCs the running call has issued
  rpcResult,  \* how the call's RPC ended: [kind, status, what, rows]
  response,   \* the caller's container: results, columns or response
  ret,        \* the Status the call returned
  lastReject, \* the last failure of a single (no timeout) probe: [path, st]
  services,   \* services handed to Dispatcher::addService
  fatal_,     \* ExtensionWatcher::fatal_
  xpc,        \* ExtensionWatcher::start: "run" in the loop, "stopped" after it
  xinterrupted, \* the extension watcher's interrupt bit
  core_sane,  \* ExtensionWatcher::watch: core_sane of the last tick
  wstatus,    \* ExtensionWatcher::watch: status of the last tick
  tickSaw,    \* what the manager socket answered in the last tick
  tickRequests, \* return codes given to Initializer::requestShutdown in the last tick
  requested,  \* every return code given to Initializer::requestShutdown so far
  routes,     \* Registry::routeUUIDs(): the live extension UUIDs
  issued,     \* the last UUID the manager handed out at registration
  failures_,  \* ExtensionManagerWatcher::failures_ (a map: its domain are its keys)
  mpc,        \* ExtensionManagerWatcher::start: "idle", "watch", "probe", "shutdown", "done"
  uuids,      \* the UUIDs the running loop has still to visit
  snapshot,   \* const auto uuids = Registry::routeUUIDs() of the running loop
  cur,        \* the UUID whose extensionPathActive(path, true) is running
  probeLog,   \* per UUID: the results, "ok" or "fail", of its last two probes
  removedNow, \* UUIDs given to Registry::removeBroadcast by the last tick
  removed,    \* UUIDs given to Registry::removeBroadcast so far
  dead,       \* UUIDs that are unreachable for good
  downTicks,  \* per UUID: ticks that ended since it went dead (counted to 2)
  tried,      \* the shutdown requests made, in order: [uuid, sent]
  atInterrupt,\* failures_ and removed when the shutdown loop began
  latent,     \* UUIDs whose extensionPathActive(path, true) of this tick returned success
  bpc,        \* position in startExtension: "idle", "wprobe", "started",
              \* "probe", "register", "options", "socket", "done"
  bform,      \* the overload called: "name" (line 450) or "path" (line 474)
  bret,       \* the Status startExtension returned
  ext_status, \* startExtension: ExtensionStatus ext_status, [code, msg, uuid]
  optionsAsked, \* startExtension has called the manager's options()
  ownFile,    \* the filesystem at the extension's own socket path
  ownTouched, \* startExtension has run socketWritable on its own socket path
  active,     \* registries given to Registry::setActive
  bsteps,     \* startExtension: the steps that have succeeded, in order
  gpc,        \* position in startExtensionManager: "idle", "gate", "wait", "done"
  gform,      \* the overload called: "default" (line 718) or "path" (line 725)
  required,   \* osquery::split(FLAGS_extensions_require, ","): a tuple of names
  gi,         \* the index in required of the extension the loop is at
  waited,     \* bool waited
  gret,       \* the Status startExtensionManager returned
  extList,    \* per extension name: the manager's listing holds it
  answered,   \* the names a gate predicate found listed and pinged with success
  everListed, \* the names the listing has held since the manager started
  FLAGS_extension, \* --extension: a path, <<>> when empty
  loadfile,   \* the loadfile: [readable, lines], a line being a tuple of tokens
  lpc,        \* position in the loader: "idle", "lines", "done"
  lkind,      \* EXTENSION for loadExtensions, MODULE_TYPE for loadModules
  lform,      \* "default": the void wrapper; "file": the overload given a loadfile
  lrest,      \* the lines the loader's loop has still to visit
  supervised, \* the paths given to Watcher::addExtensionPath, in order
  loaded,     \* the paths given to RegistryModuleLoader, in order
  all_loaded, \* loadModules: bool all_loaded
  lret,       \* the Status the loader returned
  answers     \* what the predicate of the bare prober answered in this run:
              \* [last |-> its last answer, plain |-> failures without stop so far]

flagVars == <<FLAGS_extensions_timeout, FLAGS_disable_extensions>>
delayVars == <<dpc, delay, timeout, status, stop, attempts, sleeps>>
probeVars == <<ppath, use_timeout>>
callVars == <<cpc, call, probed, rpcs, rpcResult, response, ret, lastReject,
              services>>
extVars == <<fatal_, xpc, xinterrupted, core_sane, wstatus, tickSaw,
             tickRequests, requested>>
mgrVars == <<routes, issued, failures_, mpc, uuids, snapshot, cur, probeLog,
             removedNow, removed, dead, downTicks, tried, atInterrupt, latent>>
bootVars == <<bpc, bform, bret, ext_status, optionsAsked, ownFile, ownTouched,
              active, bsteps>>
gateVars == <<gpc, gform, required, gi, waited, gret, extList, answered,
              everListed>>
loadVars == <<FLAGS_extension, loadfile, lpc, lkind, lform, lrest, supervised,
              loaded, all_loaded, lret>>
vars == <<flagVars, endpoint, delayVars, probeVars, callVars, extVars, mgrVars,
          bootVars, gateVars, loadVars, answers>>

\* what the facade's actions, and the bare prober's, leave alone
notCalls == <<extVars, mgrVars, bootVars, gateVars, loadVars, answers>>

----------------------------------------------------------------------------
(* Bounds of the model *)

\* applyExtensionDelay runs are cut after this many predicate calls (a
\* negative flag makes the deadline 2^64 - 1000*|T| milliseconds).
MaxAttempts == 160

\* Route UUIDs the manager hands out: 1..MaxExt (0 is the manager itself)
MaxExt == 2

----------------------------------------------------------------------------
(* Status *)

Status(c, m) == [code |-> c, msg |-> m]
\* Status(): the default-constructed status is success with an empty message
StatusDefault == Status(0, "")
StatusOK == Status(0, "OK")
\* Status(c): the constructor taking only a code gives the message "OK"
StatusOf(c) == Status(c, "OK")
ok(st) == st.code = 0
\* no Status yet
NoStatus == Status(-1, "")

----------------------------------------------------------------------------
(* applyExtensionDelay *)

kExtensionInitializeLatency == 20

\* The values of --extensions_timeout the model runs with ("3" is the default)
TimeoutFlags ==
  { <<"3">>, <<"0">>, <<"1">>, <<"2">>, <<"-", "1">>, <<"x">>, <<" ", "1">>,
    <<"1", "x">>, <<"+", "2">> }

DigitChars == {"0", "1", "2", "3", "4", "5", "6", "7", "8", "9"}
DigitVal(c) ==
  CASE c = "0" -> 0 [] c = "1" -> 1 [] c = "2" -> 2 [] c = "3" -> 3
    [] c = "4" -> 4 [] c = "5" -> 5 [] c = "6" -> 6 [] c = "7" -> 7
    [] c = "8" -> 8 [] c = "9" -> 9

RECURSIVE SkipSpace(_, _)
SkipSpace(s, i) ==
  IF i <= Len(s) /\ s[i] \in {" ", "\t"} THEN SkipSpace(s, i + 1) ELSE i

RECURSIVE AtoiDigits(_, _, _)
AtoiDigits(s, i, acc) ==
  IF i <= Len(s) /\ s[i] \in DigitChars
    THEN AtoiDigits(s, i + 1, acc * 10 + DigitVal(s[i]))
    ELSE acc

\* atoi: leading white space, an optional sign, then the decimal digits up to
\* the first other character; 0 when there are no digits.
atoi(s) ==
  LET i == SkipSpace(s, 1)
      neg == i <= Len(s) /\ s[i] = "-"
      j == IF i <= Len(s) /\ s[i] \in {"-", "+"} THEN i + 1 ELSE i
      n == AtoiDigits(s, j, 0)
  IN  IF neg THEN 0 - n ELSE n

\* int -> size_t (sign extension in the two's-complement representation)
ToSizeT(n) == n

\* a < b on size_t
ULess(a, b) == IF (a < 0) = (b < 0) THEN a < b ELSE b < 0

\* lines 134-137: the timeout in milliseconds, at least 10 latencies
ClampedNoFloor(t) == t
Clamped(t) ==
  IF ULess(t, kExtensionInitializeLatency * 10)
    THEN kExtensionInitializeLatency * 10
    ELSE t

EffectiveTimeout(flag) == Clamped(ToSizeT(atoi(flag) * 1000))

\* lines 130-139: entry of applyExtensionDelay
DelayBegin ==
  /\ dpc = "idle"
  /\ dpc' = "loop"
  /\ delay' = 0
  /\ timeout' = EffectiveTimeout(FLAGS_extensions_timeout)
  /\ status' = StatusDefault
  /\ stop' = FALSE
  /\ attempts' = 0
  /\ sleeps' = 0

NoAnswers == [last |-> [st |-> NoStatus, stp |-> FALSE], plain |-> 0]

\* lines 140-150: one iteration of the do-while loop; st and stp are what the
\* predicate returned and what it left in stop.
DelayIterSleepsFirst(st, stp) ==
  /\ dpc = "loop"
  /\ attempts < MaxAttempts
  /\ attempts' = attempts + 1
  /\ status' = st
  /\ stop' = stp
  /\ delay' = delay + kExtensionInitializeLatency
  /\ sleeps' = sleeps + 1
  /\ dpc' = IF stp \/ ok(st) \/ ~ULess(delay', timeout) THEN "ret" ELSE "loop"
  /\ UNCHANGED timeout
DelayIter(st, stp) ==
  /\ dpc = "loop"
  /\ attempts < MaxAttempts
  /\ attempts' = attempts + 1
  /\ status' = st
  /\ stop' = stp
  /\ IF stp \/ ok(st)
       THEN /\ dpc' = "ret"
            /\ UNCHANGED <<delay, sleeps>>
       ELSE /\ delay' = delay + kExtensionInitializeLatency
            /\ sleeps' = sleeps + 1
            /\ dpc' = IF ULess(delay', timeout) THEN "loop" ELSE "ret"
  /\ UNCHANGED timeout

\* line 151: return status (the caller takes it)
DelayReturn ==
  /\ dpc = "ret"
  /\ dpc' = "idle"
  /\ UNCHANGED <<delay, timeout, status, stop, attempts, sleeps>>

DelayIdle ==
  /\ dpc = "idle"
  /\ delay = 0
  /\ timeout = 0
  /\ status = StatusDefault
  /\ stop = FALSE
  /\ attempts = 0
  /\ sleeps = 0

----------------------------------------------------------------------------
(* Endpoints: the collaborators' answers (pathExists, isWritable, the RPC   *)
(* client's constructor, the RPC itself) for each socket path               *)

PathIds == 0 .. MaxExt

\* "missing": no file;            "readonly": a file that is not writable;
\* "stale": a writable file nobody listens on (the client constructor throws);
\* "up": a server that answers with success;
\* "bad": a server that answers with a non-success status;
\* "hung": a server that accepts the connection and whose RPC throws
EndpointStates == {"missing", "readonly", "stale", "up", "bad", "hung"}

\* getExtensionSocket(uuid): the manager socket with "." and the UUID appended;
\* UUID 0 is the manager socket itself (FLAGS_extensions_socket)
getExtensionSocket(u) == IF u = 0 THEN "osquery.em" ELSE "osquery.em." \o ToString(u)

pathExists(p) == endpoint[p] # "missing"
isWritable(p) == endpoint[p] \notin {"missing", "readonly"}
Connects(p) == endpoint[p] \in {"up", "bad", "hung"}

EXT_SUCCESS == 0
\* the non-success status a "bad" peer answers with
DegradedStatus == Status(7, "degraded")

\* The environment changes what one socket answers
EndpointChange(p, s) ==
  /\ endpoint[p] # s
  /\ endpoint' = [endpoint EXCEPT ![p] = s]

----------------------------------------------------------------------------
(* extensionPathActive *)

\* lines 155-178: the predicate handed to applyExtensionDelay, as
\* [st |-> the Status it returns, stp |-> what it leaves in stop]
PathActiveDistinct(p, ut) ==
  IF pathExists(p) /\ isWritable(p) /\ Connects(p)
    THEN [st |-> StatusOK, stp |-> FALSE]
    ELSE [st |-> Status(1, (IF ut THEN "Extension socket timed out: "
                                  ELSE "Extension socket not available: ")
                           \o getExtensionSocket(p)),
          stp |-> ~ut]
PathActiveNeverStops(p, ut) ==
  IF pathExists(p) /\ isWritable(p) /\ Connects(p)
    THEN [st |-> StatusOK, stp |-> FALSE]
    ELSE [st |-> Status(1, "Extension socket not available: " \o getExtensionSocket(p)),
          stp |-> FALSE]
PathActivePredicate(p, ut) ==
  IF pathExists(p) /\ isWritable(p) /\ Connects(p)
    THEN [st |-> StatusOK, stp |-> FALSE]
    ELSE [st |-> Status(1, "Extension socket not available: " \o getExtensionSocket(p)),
          stp |-> ~ut]

\* line 154-155: extensionPathActive(path, use_timeout) enters the prober
PathActiveBegin(p, ut) ==
  /\ DelayBegin
  /\ ppath' = p
  /\ use_timeout' = ut

\* one call of the predicate by the prober's loop
PathActiveAttempt ==
  /\ LET r == PathActivePredicate(ppath, use_timeout) IN DelayIter(r.st, r.stp)
  /\ UNCHANGED probeVars

ProbeIdle == ppath = 0 /\ use_timeout = FALSE

----------------------------------------------------------------------------
(* The host-side facade and startExtensionWatcher *)

NoCall == [op |-> "none", form |-> "none", path |-> 0, given |-> <<>>]
NoReject == [path |-> 0, st |-> NoStatus]
NoRpc == [kind |-> "none", status |-> NoStatus, what |-> "", rows |-> <<>>]

\* The entry points: "default" takes FLAGS_extensions_socket, "path" an
\* explicit socket, "uuid" a route UUID.
FacadeForms ==
  { <<"pingExtension", "path">>,
    <<"queryExternal", "default">>, <<"queryExternal", "path">>,
    <<"getQueryColumnsExternal", "default">>, <<"getQueryColumnsExternal", "path">>,
    <<"getExtensions", "default">>, <<"getExtensions", "path">>,
    <<"callExtension", "uuid">>, <<"callExtension", "path">> }

\* The entry points that test FLAGS_disable_extensions: lines 605, 627, 668
ChecksDisabled(op, form) ==
  \/ op = "pingExtension"
  \/ op = "getExtensions" /\ form = "default"
  \/ op = "callExtension" /\ form = "uuid"

\* The sockets the calls are aimed at
CallPaths == {0, 1}
TargetsOf(form) ==
  CASE form = "default" -> {0}
    [] form = "uuid" -> CallPaths \ {0}
    [] OTHER -> CallPaths

\* What the caller's container may hold when it is handed over, and the rows
\* a reply may carry
CallerContents == {<<>>, <<"old">>}
ReplyRows == {<<>>, <<"row">>}

\* The entry points that take a container of rows: QueryData& results,
\* TableColumns& columns, PluginResponse& response
TakesRows(op) ==
  op \in {"queryExternal", "getQueryColumnsExternal", "callExtension"}

\* A facade entry point is called: the disabled check, then extensionPathActive
FacadeEnter(op, form, p) ==
  /\ cpc = "idle"
  /\ \E given \in CallerContents :
       /\ TakesRows(op) \/ given = <<>>
       /\ call' = [op |-> op, form |-> form, path |-> p, given |-> given]
       /\ response' = given
  /\ rpcs' = 0
  /\ rpcResult' = NoRpc
  /\ IF ChecksDisabled(op, form) /\ FLAGS_disable_extensions
       THEN /\ ret' = Status(1, "Extensions disabled")
            /\ cpc' = "done"
            /\ probed' = FALSE
            /\ UNCHANGED <<delayVars, probeVars>>
       ELSE /\ PathActiveBegin(p, FALSE)
            /\ ret' = NoStatus
            /\ cpc' = "probe"
            /\ probed' = TRUE
  /\ UNCHANGED <<notCalls, flagVars, endpoint, lastReject, services>>

\* lines 703-707: startExtensionWatcher probes the manager with the timeout
WatcherStartEnter(p) ==
  /\ cpc = "idle"
  /\ call' = [op |-> "startExtensionWatcher", form |-> "path", path |-> p,
               given |-> <<>>]
  /\ response' = <<>>
  /\ rpcs' = 0
  /\ rpcResult' = NoRpc
  /\ PathActiveBegin(p, TRUE)
  /\ ret' = NoStatus
  /\ cpc' = "probe"
  /\ probed' = TRUE
  /\ UNCHANGED <<notCalls, flagVars, endpoint, lastReject, services>>

\* the prober calls the predicate once more
CallProbe ==
  /\ cpc = "probe"
  /\ PathActiveAttempt
  /\ UNCHANGED <<notCalls, flagVars, endpoint, callVars>>

\* extensionPathActive returned: a failure is returned as it is
CallProbed ==
  /\ cpc = "probe"
  /\ DelayReturn
  /\ lastReject' = IF ~ok(status) /\ ~use_timeout
                     THEN [path |-> ppath, st |-> status] ELSE lastReject
  /\ IF ~ok(status)
       THEN /\ ret' = status
            /\ cpc' = "done"
            /\ UNCHANGED services
       ELSE IF call.op = "startExtensionWatcher"
         THEN \* lines 713-715
              /\ services' = services \cup {"ExtensionWatcher"}
              /\ ret' = StatusOK
              /\ cpc' = "done"
         ELSE /\ cpc' = "rpc"
              /\ UNCHANGED <<ret, services>>
  /\ UNCHANGED <<notCalls, flagVars, endpoint, probeVars, call, probed, rpcs,
                 rpcResult, response>>

\* What the RPC client does on socket p: the constructor or the call throws,
\* or the peer's reply comes back
RpcOutcome(p) ==
  CASE ~(isWritable(p) /\ Connects(p)) ->
         [kind |-> "raised", status |-> NoStatus, what |-> "connect() failed"]
    [] endpoint[p] = "hung" ->
         [kind |-> "raised", status |-> NoStatus, what |-> "read timed out"]
    [] endpoint[p] = "bad" ->
         [kind |-> "returned", status |-> DegradedStatus, what |-> ""]
    [] OTHER ->
         [kind |-> "returned", status |-> StatusOK, what |-> ""]

\* the catch blocks of the facade: lines 556-558, 584-586, 619-621, 645-647,
\* 690-692
OnRaiseEndpointError(what) == Status(1, "Extension socket not available: " \o what)
OnRaise(what) == Status(1, "Extension call failed: " \o what)

\* the return statements after the RPC: lines 564, 596, 623, 660, 700
OnReply(op, reply) ==
  IF op = "getExtensions" THEN Status(0, "OK") ELSE Status(reply.code, reply.msg)

\* lines 589-594: a row of the reply becomes a column of the caller's list
Column(row) == <<row, "type", "DEFAULT">>

\* what is pushed to the caller's container after the reply: lines 560-562,
\* 589-594 and 695-699
PushedWhateverStatus(op, reply, rows) ==
  CASE op = "getQueryColumnsExternal" -> [i \in DOMAIN rows |-> Column(rows[i])]
    [] op \in {"queryExternal", "callExtension"} -> rows
    [] OTHER -> <<>>
Pushed(op, reply, rows) ==
  CASE op = "queryExternal" -> rows
    [] op = "getQueryColumnsExternal" -> [i \in DOMAIN rows |-> Column(rows[i])]
    [] op = "callExtension" -> IF reply.code = EXT_SUCCESS THEN rows ELSE <<>>
    [] OTHER -> <<>>

\* the try block: the client is built and the RPC issued; then the rows of
\* the reply are pushed and the reply's status returned
CallRpc ==
  /\ cpc = "rpc"
  /\ LET out == RpcOutcome(call.path) IN
       IF out.kind = "raised"
         THEN /\ rpcResult' = [kind |-> out.kind, status |-> out.status,
                               what |-> out.what, rows |-> <<>>]
              /\ ret' = OnRaise(out.what)
              /\ UNCHANGED response
         ELSE \E rows \in ReplyRows :
                /\ TakesRows(call.op) \/ rows = <<>>
                /\ rpcResult' = [kind |-> out.kind, status |-> out.status,
                                 what |-> out.what, rows |-> rows]
                /\ response' = response \o Pushed(call.op, out.status, rows)
                /\ ret' = OnReply(call.op, out.status)
  /\ rpcs' = rpcs + 1
  /\ cpc' = "done"
  /\ UNCHANGED <<notCalls, flagVars, endpoint, delayVars, probeVars, call, probed,
                 lastReject, services>>

\* the caller has the status; the call's locals are gone
CallReturn ==
  /\ cpc = "done"
  /\ cpc' = "idle"
  /\ call' = NoCall
  /\ probed' = FALSE
  /\ rpcs' = 0
  /\ rpcResult' = NoRpc
  /\ response' = <<>>
  /\ ret' = NoStatus
  /\ dpc' = "idle"
  /\ delay' = 0
  /\ timeout' = 0
  /\ status' = StatusDefault
  /\ stop' = FALSE
  /\ attempts' = 0
  /\ sleeps' = 0
  /\ ppath' = 0
  /\ use_timeout' = FALSE
  /\ UNCHANGED <<notCalls, flagVars, endpoint, lastReject, services>>

CallIdle ==
  /\ cpc = "idle"
  /\ call = NoCall
  /\ probed = FALSE
  /\ rpcs = 0
  /\ rpcResult = NoRpc
  /\ response = <<>>
  /\ ret = NoStatus
  /\ lastReject = NoReject
  /\ services = {}

----------------------------------------------------------------------------
(* ExtensionWatcher (the extension-side watcher) *)

\* exitFatal(): the default return code of the header's declaration
kFatalReturnCode == 1

\* lines 245-248: a core that is gone ends the extension with code 0
GoneRequestsNothing(sane) == <<>>
GoneRequests(sane) == IF ~sane THEN <<0>> ELSE <<>>

\* lines 250-253: a failed ping status is fatal when fatal_ is set
FatalRequestsIgnoreFlag(st, fatal) ==
  IF st.code # EXT_SUCCESS THEN <<kFatalReturnCode>> ELSE <<>>
FatalRequests(st, fatal) ==
  IF st.code # EXT_SUCCESS /\ fatal THEN <<kFatalReturnCode>> ELSE <<>>

RangeOf(seq) == { seq[i] : i \in 1 .. Len(seq) }

\* lines 219-254: one tick.  ExtensionStatus status starts as code 0 and a
\* ping that throws leaves it so.
ExtensionWatcherWatch ==
  /\ xpc = "run"
  /\ ~xinterrupted
  /\ LET out == RpcOutcome(0)
         sane == isWritable(0) /\ out.kind = "returned"
         st == IF sane THEN out.status ELSE Status(EXT_SUCCESS, "")
         reqs == GoneRequests(sane) \o FatalRequests(st, fatal_)
     IN  /\ core_sane' = sane
         /\ wstatus' = st
         /\ tickRequests' = reqs
         /\ requested' = requested \cup RangeOf(reqs)
  /\ tickSaw' = endpoint[0]
  /\ UNCHANGED <<fatal_, xpc, xinterrupted>>

\* the dispatcher interrupts the service
ExtensionWatcherInterrupt ==
  /\ ~xinterrupted
  /\ xinterrupted' = TRUE
  /\ UNCHANGED <<fatal_, xpc, core_sane, wstatus, tickSaw, tickRequests,
                 requested>>

\* lines 185-189: the loop ends when interrupted
ExtensionWatcherExit ==
  /\ xpc = "run"
  /\ xinterrupted
  /\ xpc' = "stopped"
  /\ UNCHANGED <<fatal_, xinterrupted, core_sane, wstatus, tickSaw,
                 tickRequests, requested>>

ExtIdle ==
  /\ xpc = "run"
  /\ xinterrupted = FALSE
  /\ core_sane = TRUE
  /\ wstatus = Status(EXT_SUCCESS, "")
  /\ tickSaw = "none"
  /\ tickRequests = <<>>
  /\ requested = {}

----------------------------------------------------------------------------
(* ExtensionManagerWatcher (the manager-side watcher) *)

Uuids == 1 .. MaxExt

\* failures_[u] as std::map::operator[] reads it: a missing key reads as 0
Ledger(u) == IF u \in DOMAIN failures_ THEN failures_[u] ELSE 0
\* failures_[u] = n
SetLedger(f, u, n) == [v \in DOMAIN f \cup {u} |-> IF v = u THEN n ELSE f[v]]

\* Registry::removeBroadcast(uuid): the UUID's routes are revoked
removeBroadcast(rs, u) == rs \ {u}

\* line 274: !writable && failures_[uuid] == 0, the first attempt on a UUID
\* whose socket is not writable
FirstAttemptAnyTick(u) == ~isWritable(u)
FirstAttempt(u) == ~isWritable(u) /\ Ledger(u) = 0

\* line 259 and 262: the UUIDs the tick's loop has still to visit come from
\* the snapshot
ToVisitLive == uuids \cup (routes \ snapshot)
ToVisit == uuids

\* line 313: failures_[uuid.first] = 1 after the removal
AfterRemovalKept(n) == n
AfterRemoval(n) == 1

\* line 310: uuid.second > 1
ShouldRemoveAtThree(n) == n > 2
ShouldRemove(n) == n > 1

\* lines 284-305: the ledger entry after the ping of u, writable being what
\* line 274 or line 279 found
PingFailedUnlessUnwritable(u, writable) ==
  /\ writable
  /\ \/ RpcOutcome(u).kind = "raised"
     \/ RpcOutcome(u).status.code # EXT_SUCCESS
PingFailed(u, writable) ==
  \/ ~writable
  \/ RpcOutcome(u).kind = "raised"
  \/ RpcOutcome(u).status.code # EXT_SUCCESS

LastTwo(log) == IF Len(log) > 2 THEN Tail(log) ELSE log

MgrPing(u, writable) ==
  /\ failures_' = SetLedger(failures_, u,
                            IF PingFailed(u, writable) THEN 1 + 1 ELSE 1)
  /\ probeLog' = [probeLog EXCEPT
                    ![u] = LastTwo(Append(@, IF PingFailed(u, writable)
                                               THEN "fail" ELSE "ok"))]
  /\ uuids' = uuids \ {u}

\* lines 193 and 259: not interrupted, a tick begins with the snapshot of the
\* live UUIDs
MgrTickStart ==
  /\ mpc = "idle"
  /\ mpc' = "watch"
  /\ uuids' = routes
  /\ snapshot' = routes
  /\ removedNow' = {}
  /\ latent' = {}
  /\ UNCHANGED <<routes, issued, failures_, cur, probeLog, removed, dead,
                 downTicks, tried, atInterrupt>>
  /\ UNCHANGED <<delayVars, probeVars>>

\* lines 263-305 for one UUID whose socket is writable or was probed before
MgrProbe(u) ==
  /\ mpc = "watch"
  /\ u \in ToVisit
  /\ ~FirstAttempt(u)
  /\ MgrPing(u, isWritable(u))
  /\ UNCHANGED <<routes, issued, mpc, snapshot, cur, removedNow, removed, dead,
                 downTicks, tried, atInterrupt, latent>>
  /\ UNCHANGED <<delayVars, probeVars>>

\* lines 274-279: the first check of a UUID whose socket is not writable
\* enters extensionPathActive(path, true)
MgrFirstProbe(u) ==
  /\ mpc = "watch"
  /\ u \in ToVisit
  /\ FirstAttempt(u)
  /\ failures_' = SetLedger(failures_, u, 0)
  /\ PathActiveBegin(u, TRUE)
  /\ mpc' = "probe"
  /\ cur' = u
  /\ UNCHANGED <<routes, issued, uuids, snapshot, probeLog, removedNow, removed,
                 dead, downTicks, tried, atInterrupt, latent>>

\* the prober calls the predicate once more
MgrProbeAttempt ==
  /\ mpc = "probe"
  /\ PathActiveAttempt
  /\ UNCHANGED mgrVars

\* line 279 returns into writable; lines 284-305 follow
MgrProbeDone ==
  /\ mpc = "probe"
  /\ dpc = "ret"
  /\ MgrPing(cur, ok(status))
  /\ mpc' = "watch"
  /\ cur' = 0
  /\ dpc' = "idle"
  /\ delay' = 0
  /\ timeout' = 0
  /\ status' = StatusDefault
  /\ stop' = FALSE
  /\ attempts' = 0
  /\ sleeps' = 0
  /\ ppath' = 0
  /\ use_timeout' = FALSE
  /\ latent' = IF ok(status) THEN latent \cup {cur} ELSE latent
  /\ UNCHANGED <<routes, issued, snapshot, removedNow, removed, dead,
                 downTicks, tried, atInterrupt>>

RECURSIVE RemoveAll(_, _)
RemoveAll(rs, S) ==
  IF S = {} THEN rs
  ELSE LET u == CHOOSE v \in S : TRUE IN RemoveAll(removeBroadcast(rs, u), S \ {u})

\* lines 309-315: the deregistration pass over the whole ledger ends the tick
MgrDeregister ==
  /\ mpc = "watch"
  /\ ToVisit = {}
  /\ LET gone == { u \in DOMAIN failures_ : ShouldRemove(failures_[u]) } IN
       /\ routes' = RemoveAll(routes, gone)
       /\ removedNow' = gone
       /\ removed' = removed \cup gone
       /\ failures_' = [u \in DOMAIN failures_ |->
                          IF u \in gone THEN AfterRemoval(failures_[u])
                                         ELSE failures_[u]]
  /\ downTicks' = [u \in Uuids |->
                     IF u \in dead /\ u \in routes /\ downTicks[u] < 2
                       THEN downTicks[u] + 1 ELSE downTicks[u]]
  /\ mpc' = "idle"
  /\ UNCHANGED <<issued, uuids, snapshot, cur, probeLog, dead, tried, atInterrupt, latent>>
  /\ UNCHANGED <<delayVars, probeVars>>

\* lines 193-199: the service was interrupted: the loop ends and the shutdown
\* loop begins (the tick histories end with the ticks)
MgrShutdownStart ==
  /\ mpc = "idle"
  /\ mpc' = "shutdown"
  /\ uuids' = routes
  /\ snapshot' = routes
  /\ atInterrupt' = [ledger |-> failures_, removed |-> removed]
  /\ probeLog' = [u \in Uuids |-> <<>>]
  /\ removedNow' = {}
  /\ downTicks' = [u \in Uuids |-> 0]
  /\ latent' = {}
  /\ UNCHANGED <<routes, issued, failures_, cur, removed, dead, tried>>
  /\ UNCHANGED <<delayVars, probeVars>>

\* line 207: after a failed request the loop continues with the rest
AfterRaiseGiveUp(rest) == {}
AfterRaise(rest) == rest

\* lines 200-209: the shutdown request to one UUID
MgrShutdownOne(u) ==
  /\ mpc = "shutdown"
  /\ u \in uuids
  /\ LET sent == RpcOutcome(u).kind = "returned" IN
       /\ tried' = Append(tried, [uuid |-> u, sent |-> sent])
       /\ uuids' = IF sent THEN uuids \ {u} ELSE AfterRaise(uuids \ {u})
  /\ UNCHANGED <<routes, issued, failures_, mpc, snapshot, cur, probeLog,
                 removedNow, removed, dead, downTicks, atInterrupt, latent>>
  /\ UNCHANGED <<delayVars, probeVars>>

\* line 210: start() returns
MgrShutdownEnd ==
  /\ mpc = "shutdown"
  /\ uuids = {}
  /\ mpc' = "done"
  /\ UNCHANGED <<routes, issued, failures_, uuids, snapshot, cur, probeLog,
                 removedNow, removed, dead, downTicks, tried, atInterrupt, latent>>
  /\ UNCHANGED <<delayVars, probeVars>>

\* An extension registers: the manager hands out the next UUID; the
\* extension has not bound its socket yet
MgrRegister ==
  /\ mpc \in {"idle", "watch", "shutdown"}
  /\ issued < MaxExt
  /\ issued' = issued + 1
  /\ routes' = routes \cup {issued + 1}
  /\ UNCHANGED <<failures_, mpc, uuids, snapshot, cur, probeLog, removedNow,
                 removed, dead, downTicks, tried, atInterrupt, latent>>
  /\ UNCHANGED <<delayVars, probeVars>>

NoInterrupt == [ledger |-> <<>>, removed |-> {}]

MgrIdle ==
  /\ routes = {}
  /\ issued = 0
  /\ failures_ = <<>>
  /\ mpc = "idle"
  /\ uuids = {}
  /\ snapshot = {}
  /\ cur = 0
  /\ probeLog = [u \in Uuids |-> <<>>]
  /\ removedNow = {}
  /\ removed = {}
  /\ dead = {}
  /\ downTicks = [u \in Uuids |-> 0]
  /\ tried = <<>>
  /\ atInterrupt = NoInterrupt
  /\ latent = {}

----------------------------------------------------------------------------
(* socketWritable *)

\* The filesystem at a socket path:
\* "noparent": neither the path nor its directory exists;
\* "parentro": the path does not exist, its directory is not writable;
\* "absent":   the path does not exist, its directory is writable;
\* "readonly": the path exists and is not writable;
\* "stuck":    the path exists, is writable and cannot be removed;
\* "stale":    the path exists, is writable and can be removed
FileStates == {"noparent", "parentro", "absent", "readonly", "stuck", "stale"}

\* lines 318-338 with the result of osquery::remove ignored
socketWritableIgnoringRemove(f, path) ==
  CASE f = "readonly" ->
         [st |-> Status(1, "Cannot write extension socket: " \o path), after |-> f]
    [] f = "noparent" ->
         [st |-> Status(1, "Extension socket directory missing: " \o path), after |-> f]
    [] f = "parentro" ->
         [st |-> Status(1, "Cannot create extension socket: " \o path), after |-> f]
    [] f = "stale" ->
         [st |-> Status(0, "OK"), after |-> "absent"]
    [] OTHER ->
         [st |-> Status(0, "OK"), after |-> f]

\* lines 318-338, as [st |-> the Status returned, after |-> the filesystem
\* at the path afterwards]
socketWritable(f, path) ==
  CASE f = "readonly" ->
         [st |-> Status(1, "Cannot write extension socket: " \o path), after |-> f]
    [] f = "stuck" ->
         [st |-> Status(1, "Cannot remove extension socket: " \o path), after |-> f]
    [] f = "stale" ->
         [st |-> Status(0, "OK"), after |-> "absent"]
    [] f = "noparent" ->
         [st |-> Status(1, "Extension socket directory missing: " \o path), after |-> f]
    [] f = "parentro" ->
         [st |-> Status(1, "Cannot create extension socket: " \o path), after |-> f]
    [] OTHER ->
         [st |-> Status(0, "OK"), after |-> f]

----------------------------------------------------------------------------
(* startExtension (the extension's bootstrap) *)

NoExtStatus == [code |-> EXT_SUCCESS, msg |-> "", uuid |-> 0]

\* What a manager that is up answers to registerExtension: the new route
\* UUID, or a refusal
RegisterReplies ==
  { [code |-> EXT_SUCCESS, msg |-> "OK", uuid |-> 1],
    [code |-> 1, msg |-> "Duplicate extension registered", uuid |-> 0],
    [code |-> 2, msg |-> "Duplicate registry item exists: table.t", uuid |-> 0] }

RepliesOf(p) ==
  IF endpoint[p] = "bad"
    THEN { [code |-> DegradedStatus.code, msg |-> DegradedStatus.msg, uuid |-> 0] }
    ELSE RegisterReplies

\* line 503: ext_status.code != ExtensionCode::EXT_SUCCESS
RegisterFailedNever(reply) == FALSE
RegisterFailed(reply) == reply.code # EXT_SUCCESS

\* line 510: the catch block of the registration
OnRegisterRaise(what) == Status(1, "Extension register failed: " \o what)

\* startExtension is called.  Lines 450-463: the overload taking a name
\* starts the watcher first, whose extensionPathActive(path, true) begins;
\* lines 474-480: the overload taking the manager path begins its own.
BootEnter(form) ==
  /\ bpc = "idle"
  /\ bform = form
  /\ PathActiveBegin(0, TRUE)
  /\ bpc' = IF form = "name" THEN "wprobe" ELSE "probe"
  /\ UNCHANGED <<bform, bret, ext_status, optionsAsked, ownFile, ownTouched,
                 active, bsteps, services>>

\* the prober calls the predicate once more
BootProbe ==
  /\ bpc \in {"wprobe", "probe"}
  /\ PathActiveAttempt
  /\ UNCHANGED <<bootVars, services>>

\* lines 705-715 and 459-463: startExtensionWatcher returns
BootWatcherProbed ==
  /\ bpc = "wprobe"
  /\ DelayReturn
  /\ IF ~ok(status)
       THEN /\ bret' = status
            /\ bpc' = "done"
            /\ UNCHANGED <<services, bsteps>>
       ELSE /\ services' = services \cup {"ExtensionWatcher"}
            /\ bsteps' = Append(bsteps, "watcher")
            /\ bpc' = "started"
            /\ UNCHANGED bret
  /\ UNCHANGED <<bform, ext_status, optionsAsked, ownFile, ownTouched, active,
                 probeVars>>

\* lines 465-466 and 479-480: the overload taking the manager path is entered
BootEnterPath ==
  /\ bpc = "started"
  /\ PathActiveBegin(0, TRUE)
  /\ bpc' = "probe"
  /\ UNCHANGED <<bform, bret, ext_status, optionsAsked, ownFile, ownTouched,
                 active, bsteps, services>>

\* lines 480-483: extensionPathActive returned
BootProbed ==
  /\ bpc = "probe"
  /\ DelayReturn
  /\ IF ~ok(status)
       THEN bret' = status /\ bpc' = "done" /\ UNCHANGED bsteps
       ELSE /\ bpc' = "register"
            /\ bsteps' = Append(bsteps, "probe")
            /\ UNCHANGED bret
  /\ UNCHANGED <<bform, ext_status, optionsAsked, ownFile, ownTouched, active,
                 probeVars, services>>

\* lines 498-505 and 509-511: the client is built and registerExtension called
BootRegister ==
  /\ bpc = "register"
  /\ LET out == RpcOutcome(0) IN
       IF out.kind = "raised"
         THEN /\ bret' = OnRegisterRaise(out.what)
              /\ bpc' = "done"
              /\ UNCHANGED <<ext_status, bsteps>>
         ELSE \E reply \in RepliesOf(0) :
                /\ ext_status' = reply
                /\ IF RegisterFailed(reply)
                     THEN /\ bret' = Status(reply.code, reply.msg)
                          /\ bpc' = "done"
                          /\ UNCHANGED bsteps
                     ELSE /\ bpc' = "options"
                          /\ bsteps' = Append(bsteps, "register")
                          /\ UNCHANGED bret
  /\ UNCHANGED <<bform, optionsAsked, ownFile, ownTouched, active, delayVars,
                 probeVars, services>>

\* lines 506-511: the manager's options are requested on the same client
BootOptions ==
  /\ bpc = "options"
  /\ optionsAsked' = TRUE
  /\ LET out == RpcOutcome(0) IN
       IF out.kind = "raised"
         THEN bret' = OnRegisterRaise(out.what) /\ bpc' = "done" /\ UNCHANGED bsteps
         ELSE /\ bpc' = "socket"
              /\ bsteps' = Append(bsteps, "options")
              /\ UNCHANGED bret
  /\ UNCHANGED <<bform, ext_status, ownFile, ownTouched, active, delayVars,
                 probeVars, services>>

\* line 521: if (!status), the converted Status being its ok()
SocketRefusedNever(st) == FALSE
SocketRefused(st) == ~ok(st)

\* lines 540 and 471: the overload taking the manager path returns the UUID
\* as the message, the overload taking a name replaces it by Status(0)
BootSuccess(form, uuid) ==
  IF form = "name" THEN StatusOf(0) ELSE Status(0, ToString(uuid))

\* lines 513-540 (and 467-471): the own socket path is cleaned up, the active
\* plugins are set and the extension's RPC server is handed to the dispatcher
BootSocket ==
  /\ bpc = "socket"
  /\ LET r == socketWritable(ownFile, getExtensionSocket(ext_status.uuid)) IN
       /\ ownTouched' = TRUE
       /\ ownFile' = r.after
       /\ IF SocketRefused(r.st)
            THEN /\ bret' = r.st
                 /\ UNCHANGED <<active, services, bsteps>>
            ELSE /\ active' = {"config", "logger", "distributed"}
                 /\ services' = services \cup {"ExtensionRunner"}
                 /\ bsteps' = bsteps \o <<"socket", "server">>
                 /\ bret' = BootSuccess(bform, ext_status.uuid)
  /\ bpc' = "done"
  /\ UNCHANGED <<bform, ext_status, optionsAsked, delayVars, probeVars>>

BootIdle ==
  /\ bpc = "idle"
  /\ bform = "path"
  /\ bret = NoStatus
  /\ ext_status = NoExtStatus
  /\ optionsAsked = FALSE
  /\ ownFile = "absent"
  /\ ownTouched = FALSE
  /\ active = {}
  /\ bsteps = <<>>

----------------------------------------------------------------------------
(* startExtensionManager and its required-extension gate *)

\* The names extensions register under, and the route UUID of each
ExtNames == {"a", "b"}
UuidOf(name) == IF name = "a" THEN 1 ELSE 2

\* lines 627-660: getExtensions(extensions) of the predicate; the listing is
\* there when the call returns success
GetExtensionsOk ==
  /\ ~FLAGS_disable_extensions
  /\ ok(PathActivePredicate(0, FALSE).st)
  /\ RpcOutcome(0).kind = "returned"

\* lines 649-657: the UUIDs of the listing that carry the name; UUID 0 is "core"
ListedAs(name) ==
  { u \in PathIds : \/ u = 0 /\ name = "core"
                    \/ \E n \in ExtNames : n = name /\ UuidOf(n) = u /\ extList[n] }

Least(S) == CHOOSE u \in S : \A v \in S : u <= v

\* lines 604-623: pingExtension(path)
pingExtension(p) ==
  IF FLAGS_disable_extensions THEN Status(1, "Extensions disabled")
  ELSE LET active_ == PathActivePredicate(p, FALSE).st
           out == RpcOutcome(p)
       IN  IF ~ok(active_) THEN active_
           ELSE IF out.kind = "raised" THEN OnRaise(out.what)
           ELSE OnReply("pingExtension", out.status)

\* lines 767-770: the predicate stops the prober when the gate has waited
StopsWhenWaited(w) == w
\* lines 758-764: the first listed extension of that name is pinged
FoundResult(name, w) ==
  [st |-> pingExtension(Least(ListedAs(name))), stp |-> FALSE]

\* lines 756-772: the predicate handed to applyExtensionDelay for one required
\* name, as [st |-> the Status it returns, stp |-> what it leaves in stop]
GatePredicateAnyListing(name, w) ==
  IF ListedAs(name) # {}
    THEN FoundResult(name, w)
    ELSE [st |-> Status(1, "Extension not autoloaded: " \o name),
          stp |-> StopsWhenWaited(w)]
GatePredicate(name, w) ==
  IF GetExtensionsOk /\ ListedAs(name) # {}
    THEN FoundResult(name, w)
    ELSE [st |-> Status(1, "Extension not autoloaded: " \o name),
          stp |-> StopsWhenWaited(w)]

\* lines 740-745: the services startExtensionManager hands to the dispatcher
ManagerServices == {"ExtensionManagerWatcher", "ExtensionManagerRunner"}

\* lines 718-752: startExtensionManager up to the gate
GateEnter(form) ==
  /\ gpc = "idle"
  /\ gform = form
  /\ IF form = "default" /\ FLAGS_disable_extensions
       THEN /\ gret' = Status(1, "Extensions disabled")
            /\ gpc' = "done"
            /\ UNCHANGED <<ownFile, ownTouched, services, gi>>
       ELSE LET r == socketWritable(ownFile, getExtensionSocket(0)) IN
            /\ ownTouched' = TRUE
            /\ ownFile' = r.after
            /\ IF ~ok(r.st)
                 THEN /\ gret' = r.st
                      /\ gpc' = "done"
                      /\ UNCHANGED <<services, gi>>
                 ELSE /\ services' = services \cup ManagerServices
                      /\ IF required = <<>>
                           THEN gret' = Status(0, "OK") /\ gpc' = "done" /\ UNCHANGED gi
                           ELSE gpc' = "gate" /\ gi' = 1 /\ UNCHANGED gret
  /\ UNCHANGED <<gform, required, waited, extList, answered, everListed>>
  /\ UNCHANGED <<delayVars, probeVars>>

\* the listing is there, holds the name, and the extension answers a ping
ListedAndAnswers(name) ==
  /\ GetExtensionsOk
  /\ ListedAs(name) # {}
  /\ ok(pingExtension(Least(ListedAs(name))))

\* line 755: applyExtensionDelay is entered for required[gi]
GateBegin ==
  /\ gpc = "gate"
  /\ DelayBegin
  /\ gpc' = "wait"
  /\ UNCHANGED <<gform, required, gi, waited, gret, extList, answered, everListed>>

\* the prober calls the predicate once more
GateAttempt ==
  /\ gpc = "wait"
  /\ LET r == GatePredicate(required[gi], waited) IN
       /\ DelayIter(r.st, r.stp)
       /\ answered' = IF ListedAndAnswers(required[gi])
                         THEN answered \cup {required[gi]} ELSE answered
  /\ UNCHANGED <<gpc, gform, required, gi, waited, gret, extList, everListed>>

\* lines 773-778: applyExtensionDelay returned
GateReturn ==
  /\ gpc = "wait"
  /\ DelayReturn
  /\ waited' = TRUE
  /\ IF ~ok(status)
       THEN gret' = status /\ gpc' = "done" /\ UNCHANGED gi
       ELSE IF gi = Len(required)
         THEN gret' = Status(0, "OK") /\ gpc' = "done" /\ UNCHANGED gi
         ELSE gi' = gi + 1 /\ gpc' = "gate" /\ UNCHANGED gret
  /\ UNCHANGED <<gform, required, extList, answered, everListed>>

GateIdle ==
  /\ gpc = "idle"
  /\ gform = "default"
  /\ required = <<>>
  /\ gi = 0
  /\ waited = FALSE
  /\ gret = NoStatus
  /\ extList = [n \in ExtNames |-> FALSE]
  /\ answered = {}
  /\ everListed = {}

----------------------------------------------------------------------------
(* isFileSafe, loadExtensions, loadModules *)

\* lines 49-52: the enumerators EXTENSION and MODULE of ExtenableTypes
EXTENSION == 1
MODULE_TYPE == 2

\* lines 45-46 and 54-56: kExtendables.at(type)
kExtendables(type) == IF type = EXTENSION THEN ".ext" ELSE ".so"

\* A line of a loadfile is a tuple of tokens: " " is white space, "#" and ";"
\* the comment characters, a token ending in "/" a directory, a token
\* beginning with "." a file name extension.
RECURSIVE TrimLeft(_)
TrimLeft(l) == IF l # <<>> /\ Head(l) = " " THEN TrimLeft(Tail(l)) ELSE l
RECURSIVE TrimRight(_)
TrimRight(l) ==
  IF l # <<>> /\ l[Len(l)] = " " THEN TrimRight(SubSeq(l, 1, Len(l) - 1)) ELSE l
\* boost::trim
Trim(l) == TrimRight(TrimLeft(l))
NoTrim(l) == l

\* What the filesystem answers for a path
DirectoryTokens == {"/opt/ext/", "/tmp/"}
SuffixTokens == {".ext", ".so", ".txt"}
isDirectory(path) == path[Len(path)] \in DirectoryTokens
\* safePermissions(parent_path, path, true): /tmp is writable by everyone
safePermissions(path) == Head(path) = "/opt/ext/"
\* fs::path::extension()
Extension(path) == IF path[Len(path)] \in SuffixTokens THEN path[Len(path)] ELSE ""

\* lines 368-404, as [safe |-> the bool returned, path |-> the path left in
\* the reference argument]; trim is line 369's boost::trim
FileSafe(path, type) ==
  IF path = <<>> \/ Head(path) \in {"#", ";"} THEN FALSE
  ELSE IF isDirectory(path) THEN FALSE
  ELSE IF ~safePermissions(path) THEN FALSE
  ELSE IF Extension(path) # kExtendables(type) THEN FALSE
  ELSE TRUE
isFileSafeUntrimmed(line, type) ==
  [safe |-> FileSafe(NoTrim(line), type), path |-> NoTrim(line)]
isFileSafe(line, type) ==
  [safe |-> FileSafe(Trim(line), type), path |-> Trim(line)]

\* osquery::split(text, "\n"): the lines that are not empty
split(lines) == SelectSeq(lines, LAMBDA l : l # <<>>)

\* lines 340-366: the void wrappers return at once when line 342 finds the
\* extensions disabled; lines 406-414 and 427-431: the loaders read the file
LoadEnter(kind, form) ==
  /\ lpc = "idle"
  /\ lkind = kind
  /\ lform = form
  /\ IF form = "default" /\ kind = EXTENSION /\ FLAGS_disable_extensions
       THEN /\ lpc' = "done"
            /\ UNCHANGED <<supervised, lrest, lret>>
       ELSE /\ supervised' = IF kind = EXTENSION /\ FLAGS_extension # <<>>
                               THEN Append(supervised, FLAGS_extension)
                               ELSE supervised
            /\ IF loadfile.readable
                 THEN /\ lrest' = split(loadfile.lines)
                      /\ lpc' = "lines"
                      /\ UNCHANGED lret
                 ELSE /\ lret' = Status(1, "Failed reading: loadfile")
                      /\ lpc' = "done"
                      /\ UNCHANGED lrest
  /\ all_loaded' = TRUE
  /\ UNCHANGED <<FLAGS_extension, loadfile, lkind, lform, loaded>>

\* lines 415-421 and 432-439: one line of the file
LoadLine ==
  /\ lpc = "lines"
  /\ lrest # <<>>
  /\ LET r == isFileSafe(Head(lrest), lkind) IN
       /\ supervised' = IF r.safe /\ lkind = EXTENSION
                          THEN Append(supervised, r.path) ELSE supervised
       /\ loaded' = IF r.safe /\ lkind = MODULE_TYPE
                      THEN Append(loaded, r.path) ELSE loaded
       /\ all_loaded' = IF ~r.safe /\ lkind = MODULE_TYPE THEN FALSE ELSE all_loaded
  /\ lrest' = Tail(lrest)
  /\ UNCHANGED <<FLAGS_extension, loadfile, lpc, lkind, lform, lret>>

\* lines 422 and 441: the status after the last line
LoadReturn ==
  /\ lpc = "lines"
  /\ lrest = <<>>
  /\ lret' = IF lkind = EXTENSION THEN Status(0, "OK")
             ELSE Status(IF all_loaded THEN 0 ELSE 1, "")
  /\ lpc' = "done"
  /\ UNCHANGED <<FLAGS_extension, loadfile, lkind, lform, lrest, supervised,
                 loaded, all_loaded>>

LoadIdle ==
  /\ FLAGS_extension = <<>>
  /\ loadfile = [readable |-> FALSE, lines |-> <<>>]
  /\ lpc = "idle"
  /\ lkind = EXTENSION
  /\ lform = "file"
  /\ lrest = <<>>
  /\ supervised = <<>>
  /\ loaded = <<>>
  /\ all_loaded = TRUE
  /\ lret = NoStatus

----------------------------------------------------------------------------
(* SpecDelay: applyExtensionDelay called with an arbitrary predicate *)

PredicateResults == { StatusOK, Status(1, "not ready") }

InitDelay ==
  /\ FLAGS_extensions_timeout \in TimeoutFlags
  /\ FLAGS_disable_extensions = FALSE
  /\ endpoint = [p \in PathIds |-> "missing"]
  /\ DelayIdle
  /\ ProbeIdle
  /\ CallIdle
  /\ fatal_ = TRUE
  /\ ExtIdle
  /\ MgrIdle
  /\ BootIdle
  /\ GateIdle
  /\ LoadIdle
  /\ answers = NoAnswers

othersDelay == <<extVars, mgrVars, bootVars, gateVars, loadVars, flagVars,
                endpoint, probeVars, callVars>>

DelayCall == DelayBegin /\ answers' = NoAnswers /\ UNCHANGED othersDelay

DelayAttempt ==
  /\ \E st \in PredicateResults, stp \in BOOLEAN :
       /\ DelayIter(st, stp)
       /\ answers' = [last |-> [st |-> st, stp |-> stp],
                      plain |-> IF ~ok(st) /\ ~stp THEN answers.plain + 1
                                                   ELSE answers.plain]
  /\ UNCHANGED othersDelay

DelayDone == DelayReturn /\ UNCHANGED <<othersDelay, answers>>

NextDelay == DelayCall \/ DelayAttempt \/ DelayDone

SpecDelay == InitDelay /\ [][NextDelay]_vars

\* The prober gave up: it returned a failure the predicate did not ask for.
GaveUp == dpc = "ret" /\ ~ok(status) /\ ~stop

\* C9: for every configured timeout, the prober calls its predicate at least
\* 10 times before giving up, when the predicate never succeeds and never
\* sets stop.
C9_AtLeastTenAttempts == GaveUp => attempts >= 10

\* C9 witness: the prober gave up with the timeout "0" after 10 attempts
C9_Witness ==
  GaveUp /\ atoi(FLAGS_extensions_timeout) = 0 /\ attempts = 10

\* C20: the prober returns the status of the attempt that ended the loop;
\* it sleeps one latency period after each attempt that failed without stop
\* and after no other: an attempt that succeeded or set stop ends the loop
\* at once, a stop with a failed status being returned as that failure.
C20_SleepsOnlyAfterPlainFailure ==
  /\ sleeps = answers.plain
  /\ attempts >= 1 =>
       /\ status = answers.last.st
       /\ stop = answers.last.stp
       /\ (stop \/ ok(status)) => dpc # "loop"
  /\ dpc = "ret" => attempts >= 1

\* C20 witness: the third attempt failed and set stop, after two sleeps
C20_Witness ==
  /\ dpc = "ret"
  /\ attempts = 3
  /\ sleeps = 2
  /\ stop
  /\ ~ok(status)
  /\ answers.last = [st |-> Status(1, "not ready"), stp |-> TRUE]

\* the larger of two integers
Max(a, b) == IF a >= b THEN a ELSE b

\* every predicate call of the run so far failed without setting stop
AlwaysFailing == answers.plain = attempts

\* C23: for every value of the timeout flag, the prober with an always-failing
\* predicate makes at most max(T * 1000, 200) / 20 attempts, T being the
\* integer atoi reads from the flag; a negative T does not become a huge
\* deadline.
C23_AttemptsBoundedBySignedTimeout ==
  AlwaysFailing =>
    attempts <= Max(atoi(FLAGS_extensions_timeout) * 1000,
                    kExtensionInitializeLatency * 10)
                  \div kExtensionInitializeLatency

----------------------------------------------------------------------------
(* SpecCalls: the facade and startExtensionWatcher against changing sockets *)

InitCalls ==
  /\ FLAGS_extensions_timeout \in {<<"0">>, <<"1">>}
  /\ FLAGS_disable_extensions \in BOOLEAN
  /\ endpoint \in [PathIds -> {"missing", "up"}]
  /\ \A p \in PathIds \ CallPaths : endpoint[p] = "missing"
  /\ DelayIdle
  /\ ProbeIdle
  /\ CallIdle
  /\ fatal_ = TRUE
  /\ ExtIdle
  /\ MgrIdle
  /\ BootIdle
  /\ GateIdle
  /\ LoadIdle
  /\ answers = NoAnswers

FacadeCall ==
  \E f \in FacadeForms : \E p \in TargetsOf(f[2]) : FacadeEnter(f[1], f[2], p)

WatcherStartCall == \E p \in CallPaths : WatcherStartEnter(p)

SocketChange ==
  /\ \E p \in CallPaths, s \in EndpointStates : EndpointChange(p, s)
  /\ UNCHANGED <<notCalls, flagVars, delayVars, probeVars, callVars>>

NextCalls ==
  \/ FacadeCall
  \/ WatcherStartCall
  \/ CallProbe
  \/ CallProbed
  \/ CallRpc
  \/ CallReturn
  \/ SocketChange

SpecCalls == InitCalls /\ [][NextCalls]_vars

IsFacadeCall == call.op \in {f[1] : f \in FacadeForms}

\* the running call's extensionPathActive returned success
ProbeAccepted == probed /\ dpc = "idle" /\ ok(status)
\* the running call's extensionPathActive returned a failure
ProbeRejected == probed /\ dpc = "idle" /\ ~ok(status)

\* C6: with disable_extensions set, every facade operation, in each of its
\* forms, returns a failure without probing an endpoint or issuing an RPC.
C6_DisabledFailsFast ==
  (FLAGS_disable_extensions /\ IsFacadeCall) =>
    /\ ~probed
    /\ rpcs = 0
    /\ (cpc = "done" => ~ok(ret))

\* C7: a facade call returns a status whatever the transport does; once the
\* probe accepted the endpoint the status is the RPC's own or the code 1
\* "Extension call failed: <what>" of a raised RPC, never the endpoint error.
C7_StatusAfterAcceptedProbe ==
  (cpc = "done" /\ IsFacadeCall) =>
    /\ ret # NoStatus
    /\ ProbeAccepted =>
         /\ rpcs = 1
         /\ \/ /\ rpcResult.kind = "returned"
               /\ ret = IF call.op = "getExtensions" THEN StatusOK
                                                     ELSE rpcResult.status
            \/ /\ rpcResult.kind = "raised"
               /\ ret = Status(1, "Extension call failed: " \o rpcResult.what)

\* C7 witness: callExtension's probe accepted the socket, the extension went
\* away and the RPC raised
C7_Witness ==
  /\ cpc = "done"
  /\ call.op = "callExtension"
  /\ ProbeAccepted
  /\ rpcResult.kind = "raised"
  /\ endpoint[call.path] = "missing"

\* C8: without use_timeout the endpoint-active probe calls its predicate once
\* and never sleeps, on success and on failure; a facade call on a dead
\* endpoint returns the endpoint error after that one probe, with no RPC.
C8_SingleProbeNoWait ==
  /\ (probed /\ ~use_timeout) =>
       /\ sleeps = 0
       /\ attempts = IF dpc = "loop" THEN 0 ELSE 1
  /\ (cpc = "done" /\ IsFacadeCall /\ ProbeRejected) =>
       /\ ret = Status(1, "Extension socket not available: "
                            \o getExtensionSocket(call.path))
       /\ attempts = 1
       /\ sleeps = 0
       /\ rpcs = 0

\* C8 witness: callExtension(uuid) for an extension whose socket is gone
C8_Witness ==
  /\ cpc = "done"
  /\ call.op = "callExtension"
  /\ call.form = "uuid"
  /\ endpoint[call.path] = "missing"
  /\ ProbeRejected
  /\ attempts = 1

\* a probe with use_timeout has just returned its failure at the deadline,
\* and a single probe of the same socket was rejected before
TimedOutAfterReject ==
  /\ cpc = "probe"
  /\ use_timeout
  /\ GaveUp
  /\ lastReject.st # NoStatus
  /\ lastReject.path = ppath

\* C10 as stated: the status of a timed-out probe differs from the status of
\* a rejected single probe (of the same socket).
C10_FailuresDistinguished == TimedOutAfterReject => status # lastReject.st

\* C10 as amended: the endpoint-active probe returns the same status, code 1
\* "Extension socket not available: <path>", when the prober timed out and
\* when a single probe was rejected.
C10_SameFailureStatus ==
  /\ TimedOutAfterReject => status = lastReject.st
  /\ (cpc = "probe" /\ dpc = "ret" /\ ~ok(status)) =>
       status = Status(1, "Extension socket not available: "
                            \o getExtensionSocket(ppath))

\* C10 witness: the timed-out probe of the manager socket after a rejected
\* single probe of it
C10_Witness == TimedOutAfterReject /\ ppath = 0 /\ attempts >= 10

\* the running call has returned to its caller after its RPC was answered
Replied == cpc = "done" /\ rpcResult.kind = "returned"

\* C24: callExtension appends the reply's rows to the caller's response only
\* when the reply's status is success; after a failed probe, a raised RPC or
\* a non-success reply the caller's container is as it was handed over.
\* queryExternal appends the reply's rows whatever the reply's status is.
C24_RowsOnlyOnSuccess ==
  cpc = "done" =>
    /\ call.op = "callExtension" =>
         response = IF Replied /\ rpcResult.status.code = EXT_SUCCESS
                      THEN call.given \o rpcResult.rows
                      ELSE call.given
    /\ call.op = "queryExternal" =>
         response = IF Replied THEN call.given \o rpcResult.rows
                               ELSE call.given

\* C24 witness: a reply to callExtension carried a row and a non-success
\* status; the caller's response still holds only what it held before
C24_Witness ==
  /\ Replied
  /\ call.op = "callExtension"
  /\ call.given = <<"old">>
  /\ rpcResult.status.code # EXT_SUCCESS
  /\ rpcResult.rows = <<"row">>
  /\ response = <<"old">>

----------------------------------------------------------------------------
(* SpecExt: the extension-side watcher against a changing manager socket *)

InitExt ==
  /\ FLAGS_extensions_timeout = <<"3">>
  /\ FLAGS_disable_extensions = FALSE
  /\ endpoint = [p \in PathIds |-> IF p = 0 THEN "up" ELSE "missing"]
  /\ DelayIdle
  /\ ProbeIdle
  /\ CallIdle
  /\ fatal_ \in BOOLEAN
  /\ ExtIdle
  /\ MgrIdle
  /\ BootIdle
  /\ GateIdle
  /\ LoadIdle
  /\ answers = NoAnswers

notExt == <<flagVars, delayVars, probeVars, callVars, mgrVars, bootVars,
           gateVars, loadVars, answers>>

ExtTick == ExtensionWatcherWatch /\ UNCHANGED <<notExt, endpoint>>
ExtInterrupt == ExtensionWatcherInterrupt /\ UNCHANGED <<notExt, endpoint>>
ExtExit == ExtensionWatcherExit /\ UNCHANGED <<notExt, endpoint>>
ManagerChange ==
  /\ \E s \in EndpointStates : EndpointChange(0, s)
  /\ UNCHANGED <<notExt, extVars>>

NextExt == ExtTick \/ ExtInterrupt \/ ExtExit \/ ManagerChange

SpecExt == InitExt /\ [][NextExt]_vars

\* the last tick found the manager unreachable: its socket was not writable,
\* or the ping threw
TickFoundUnreachable == tickSaw \in {"missing", "readonly", "stale", "hung"}

\* C4: a tick of the extension watcher that finds the manager unreachable
\* requests shutdown with exit code 0 in that tick and does not request the
\* fatal code, whatever fatal_ is.
C4_GoneRequestsExitZero == TickFoundUnreachable => tickRequests = <<0>>

\* C4 witness: with fatal_ set, the ping threw and exit 0 was requested
C4_Witness ==
  /\ tickSaw = "hung"
  /\ fatal_
  /\ ~core_sane
  /\ tickRequests = <<0>>

\* C5: when the ping returns a non-success status, the fatal exit code is
\* requested exactly when fatal_ is set; with fatal_ unset, or on a success
\* status, the tick requests nothing and the watcher goes on to the next tick.
C5_BadStatusFatalIffFlag ==
  /\ tickSaw = "bad" =>
       /\ wstatus.code # EXT_SUCCESS
       /\ tickRequests = IF fatal_ THEN <<kFatalReturnCode>> ELSE <<>>
  /\ (tickSaw = "up" \/ (tickSaw = "bad" /\ ~fatal_)) =>
       /\ tickRequests = <<>>
       /\ (~xinterrupted => xpc = "run")

\* C5 witness: with fatal_ unset a non-success ping requested nothing
C5_Witness ==
  /\ tickSaw = "bad"
  /\ ~fatal_
  /\ wstatus = DegradedStatus
  /\ tickRequests = <<>>
  /\ xpc = "run"

----------------------------------------------------------------------------
(* Spec: the manager-side watcher, extensions registering, their sockets   *)
(* changing, and the interrupt                                              *)

\* what an extension's socket answers while the manager watches it
ExtStates == {"missing", "stale", "up", "bad"}

Init ==
  /\ FLAGS_extensions_timeout = <<"0">>
  /\ FLAGS_disable_extensions = FALSE
  /\ endpoint = [p \in PathIds |-> IF p = 0 THEN "up" ELSE "missing"]
  /\ DelayIdle
  /\ ProbeIdle
  /\ CallIdle
  /\ fatal_ = TRUE
  /\ ExtIdle
  /\ MgrIdle
  /\ BootIdle
  /\ GateIdle
  /\ LoadIdle
  /\ answers = NoAnswers

notMgr == <<flagVars, callVars, extVars, bootVars, gateVars, loadVars,
           answers>>

TickStart == MgrTickStart /\ UNCHANGED <<notMgr, endpoint>>
Probe == (\E u \in Uuids : MgrProbe(u)) /\ UNCHANGED <<notMgr, endpoint>>
FirstProbe == (\E u \in Uuids : MgrFirstProbe(u)) /\ UNCHANGED <<notMgr, endpoint>>
ProbeAttempt == MgrProbeAttempt /\ UNCHANGED <<notMgr, endpoint>>
ProbeDone == MgrProbeDone /\ UNCHANGED <<notMgr, endpoint>>
Deregister == MgrDeregister /\ UNCHANGED <<notMgr, endpoint>>
ShutdownStart == MgrShutdownStart /\ UNCHANGED <<notMgr, endpoint>>
ShutdownOne == (\E u \in Uuids : MgrShutdownOne(u)) /\ UNCHANGED <<notMgr, endpoint>>
ShutdownEnd == MgrShutdownEnd /\ UNCHANGED <<notMgr, endpoint>>
Register == MgrRegister /\ UNCHANGED <<notMgr, endpoint>>

\* the socket of an extension the watcher has still to visit changes what it
\* answers. Such a change commutes with the prober's attempts on another
\* socket, so it is taken between two probes.
ExtChange ==
  /\ mpc # "probe"
  /\ \E u \in (IF mpc = "idle" THEN routes ELSE uuids \cup (routes \ snapshot)),
        s \in ExtStates :
       /\ u \in dead => s # "up"
       /\ EndpointChange(u, s)
  /\ UNCHANGED <<notMgr, delayVars, probeVars, mgrVars>>

\* a live extension becomes unreachable for good: a reachable one goes away,
\* or one that has just registered never binds its socket
ExtDie ==
  /\ mpc \in {"idle", "watch"}
  /\ \E u \in routes \ dead, s \in ExtStates \ {"up"} :
       /\ \/ endpoint[u] = "up"
          \/ endpoint[u] = "missing" /\ s = "missing" /\ u \notin DOMAIN failures_
       /\ endpoint' = [endpoint EXCEPT ![u] = s]
       /\ dead' = dead \cup {u}
  /\ UNCHANGED <<routes, issued, failures_, mpc, uuids, snapshot, cur, probeLog,
                 removedNow, removed, downTicks, tried, atInterrupt, latent>>
  /\ UNCHANGED <<notMgr, delayVars, probeVars>>

\* the extension whose first check is waiting binds its socket while
\* extensionPathActive(path, true) runs, and answers pings with success or not
ExtBind ==
  /\ mpc = "probe"
  /\ cur \notin dead
  /\ \E s \in {"up", "bad"} : EndpointChange(cur, s)
  /\ UNCHANGED <<notMgr, delayVars, probeVars, mgrVars>>

Next ==
  \/ TickStart
  \/ Probe
  \/ FirstProbe
  \/ ProbeAttempt
  \/ ProbeDone
  \/ Deregister
  \/ ShutdownStart
  \/ ShutdownOne
  \/ ShutdownEnd
  \/ Register
  \/ ExtChange
  \/ ExtBind
  \/ ExtDie

Spec == Init /\ [][Next]_vars

\* u's probe failed in the tick that has just ended
FailedThisTick(u) ==
  /\ u \in snapshot
  /\ probeLog[u] # <<>>
  /\ probeLog[u][Len(probeLog[u])] = "fail"

\* C1 as stated: the watcher calls removeBroadcast(u) only when u's probe
\* failed in two consecutive ticks.
C1_RemovedOnlyAfterTwoFailedTicks ==
  \A u \in removedNow : probeLog[u] = <<"fail", "fail">>

\* C1 as amended: a tick calls removeBroadcast(u) exactly for the UUIDs whose
\* probe failed in that same tick; one failed tick deregisters u, also when
\* it follows a successful one.
C1_RemovedIffFailedThisTick ==
  /\ mpc = "idle" => removedNow = { u \in Uuids : FailedThisTick(u) }
  /\ mpc \in {"watch", "probe"} => removedNow = {}

\* C1 witness: u was removed by a failed tick that followed a successful one
C1_Witness ==
  \E u \in removedNow : probeLog[u] = <<"ok", "fail">> /\ u \notin routes

\* C2: an extension that became unreachable for good is given to
\* removeBroadcast, and is out of the live UUIDs, by the end of the second
\* tick that ends after it became unreachable.
C2_DeadRemovedWithinTwoTicks ==
  \A u \in Uuids : downTicks[u] >= 2 => (u \in removed /\ u \notin routes)

\* C2 witness: u went away after the running tick had probed it, and the next
\* tick removed it
C2_Witness ==
  \E u \in dead : downTicks[u] = 2 /\ u \in removedNow /\ probeLog[u] = <<"ok", "fail">>

TriedUuids == { tried[i].uuid : i \in 1 .. Len(tried) }

\* C3: the interrupted watcher requests shutdown of every UUID live at that
\* moment, going on after a request that threw; the shutdown loop leaves the
\* failure ledger as it was and does not call removeBroadcast.
C3_ShutdownEveryLiveUuid ==
  /\ mpc \in {"shutdown", "done"} =>
       /\ failures_ = atInterrupt.ledger
       /\ removed = atInterrupt.removed
       /\ TriedUuids = snapshot \ uuids
  /\ mpc = "done" =>
       /\ TriedUuids = snapshot
       /\ Len(tried) = Cardinality(snapshot)

\* C3 witness: the first request threw and the second one was sent
C3_Witness ==
  /\ mpc = "done"
  /\ Len(tried) = 2
  /\ ~tried[1].sent
  /\ tried[2].sent

\* C16: at the end of every tick the ledger entry of every UUID of that
\* tick's snapshot is 1; an entry is 2 only inside a tick, between the failed
\* probe and the deregistration pass, and 0 only while the first check runs.
C16_LedgerIsOneAtTickEnd ==
  /\ mpc = "idle" =>
       \A u \in snapshot : u \in DOMAIN failures_ /\ failures_[u] = 1
  /\ \A u \in DOMAIN failures_ :
       /\ failures_[u] \in {0, 1, 2}
       /\ failures_[u] = 2 => (mpc \in {"watch", "probe"} /\ u \in snapshot \ uuids)
       /\ failures_[u] = 0 => (mpc = "probe" /\ u = cur)

\* C16 witness: a tick has ended that removed one UUID and kept another
C16_Witness ==
  /\ mpc = "idle"
  /\ \E u \in removedNow, v \in snapshot \ removedNow :
       failures_[u] = 1 /\ failures_[v] = 1

\* C17: after the watcher deregistered a UUID the ledger holds no entry for
\* it: at every tick boundary the ledger's keys are registered UUIDs.
C17_LedgerKeysAreRegistered ==
  mpc = "idle" =>
    /\ DOMAIN failures_ \cap removed = {}
    /\ DOMAIN failures_ \subseteq routes

LastProbe(u) == probeLog[u][Len(probeLog[u])]

\* C18: extensionPathActive(path, true) runs only for a UUID no earlier tick
\* probed (ledger value 0) whose socket was not writable; when it returns
\* success, because the extension bound its socket in time, and the ping
\* then succeeds, the tick does not deregister the UUID.
C18_LatentFirstProbe ==
  /\ mpc = "probe" =>
       /\ use_timeout
       /\ ppath = cur
       /\ cur \in snapshot
       /\ probeLog[cur] = <<>>
       /\ failures_[cur] = 0
  /\ \A u \in latent :
       /\ Len(probeLog[u]) = 1
       /\ (mpc = "idle" /\ LastProbe(u) = "ok") => (u \in routes /\ u \notin removedNow)

\* C18 witness: the tick ended with a UUID whose socket was bound during its
\* first check
C18_Witness ==
  /\ mpc = "idle"
  /\ \E u \in latent : /\ probeLog[u] = <<"ok">>
                       /\ u \in routes
                       /\ failures_[u] = 1
                       /\ removedNow # {}

\* the UUIDs that registered after the running tick took its snapshot
Newcomers == routes \ snapshot

\* C19: a tick works on the snapshot of the live UUIDs taken at its start: an
\* extension registering during the tick is not probed, gets no ledger entry
\* and is not deregistered by that tick; the next tick's snapshot holds it.
C19_TickWorksOnSnapshot ==
  /\ [](mpc \in {"idle", "watch", "probe"} =>
          /\ uuids \subseteq snapshot
          /\ removedNow \subseteq snapshot
          /\ (mpc = "probe" => cur \in snapshot)
          /\ \A u \in Newcomers :
               /\ u \notin DOMAIN failures_
               /\ probeLog[u] = <<>>
               /\ u \notin removed)
  /\ [][(mpc = "idle" /\ mpc' = "watch") => (snapshot' = routes /\ uuids' = routes)]_vars

\* C19 witness: the loop has visited the whole snapshot, and an extension
\* that registered meanwhile is live and has no ledger entry
C19_Witness ==
  /\ mpc = "watch"
  /\ snapshot # {}
  /\ uuids = {}
  /\ \E u \in Newcomers : u \notin DOMAIN failures_

----------------------------------------------------------------------------
(* SpecBoot: an extension process bootstraps against a changing manager *)

InitBoot ==
  /\ FLAGS_extensions_timeout = <<"0">>
  /\ FLAGS_disable_extensions = FALSE
  /\ endpoint \in [PathIds -> {"missing", "up", "bad"}]
  /\ \A p \in PathIds \ {0} : endpoint[p] = "missing"
  /\ DelayIdle
  /\ ProbeIdle
  /\ CallIdle
  /\ fatal_ = TRUE
  /\ ExtIdle
  /\ MgrIdle
  /\ bpc = "idle"
  /\ bform \in {"name", "path"}
  /\ bret = NoStatus
  /\ ext_status = NoExtStatus
  /\ optionsAsked = FALSE
  /\ ownFile \in FileStates
  /\ ownTouched = FALSE
  /\ active = {}
  /\ bsteps = <<>>
  /\ GateIdle
  /\ LoadIdle
  /\ answers = NoAnswers

notBoot == <<flagVars, extVars, mgrVars, gateVars, loadVars, answers, cpc, call, probed, rpcs,
             rpcResult, response, ret, lastReject>>

BootCall == (\E form \in {"name", "path"} : BootEnter(form)) /\ UNCHANGED <<notBoot, endpoint>>
BootAttempt == BootProbe /\ UNCHANGED <<notBoot, endpoint>>
BootWatcherStarted == BootWatcherProbed /\ UNCHANGED <<notBoot, endpoint>>
BootPathCall == BootEnterPath /\ UNCHANGED <<notBoot, endpoint>>
BootPathActive == BootProbed /\ UNCHANGED <<notBoot, endpoint>>
BootRegistration == BootRegister /\ UNCHANGED <<notBoot, endpoint>>
BootOptionsCall == BootOptions /\ UNCHANGED <<notBoot, endpoint>>
BootOwnSocket == BootSocket /\ UNCHANGED <<notBoot, endpoint>>

\* the manager's socket changes what it answers while the extension starts
BootManagerChange ==
  /\ bpc \notin {"idle", "done"}
  /\ \E s \in EndpointStates : EndpointChange(0, s)
  /\ UNCHANGED <<notBoot, delayVars, probeVars, bootVars, services>>

NextBoot ==
  \/ BootCall
  \/ BootAttempt
  \/ BootWatcherStarted
  \/ BootPathCall
  \/ BootPathActive
  \/ BootRegistration
  \/ BootOptionsCall
  \/ BootOwnSocket
  \/ BootManagerChange

SpecBoot == InitBoot /\ [][NextBoot]_vars

\* registerExtension returned a non-success status
RegistrationRefused == bpc = "done" /\ ext_status.code # EXT_SUCCESS

\* C11: when registerExtension returns a non-success status, startExtension
\* returns that code and message; it has not requested the options, has not
\* touched its own socket path, has set no active plugin and has launched no
\* extension RPC server.
C11_RefusedRegistrationReturned ==
  RegistrationRefused =>
    /\ bret = Status(ext_status.code, ext_status.msg)
    /\ ~optionsAsked
    /\ ~ownTouched
    /\ active = {}
    /\ "ExtensionRunner" \notin services

\* C11 witness: the manager refused a duplicate name to the overload that had
\* started the watcher; a stale own socket file is still there
C11_Witness ==
  /\ RegistrationRefused
  /\ bform = "name"
  /\ bret = Status(1, "Duplicate extension registered")
  /\ ownFile = "stale"
  /\ services = {"ExtensionWatcher"}

\* startExtension has handed its RPC server to the dispatcher
ServerLaunched == "ExtensionRunner" \in services

\* step a succeeded before step b did
Before(a, b) ==
  \E i, j \in DOMAIN bsteps : i < j /\ bsteps[i] = a /\ bsteps[j] = b

\* the manager answered the probe, then registerExtension returned success,
\* then the own endpoint was found rebindable, then the server was added
ProbeRegisterSocketServer ==
  /\ Before("probe", "register")
  /\ Before("register", "socket")
  /\ Before("socket", "server")
  /\ ext_status.code = EXT_SUCCESS
  /\ ownTouched
  /\ ownFile = "absent"

\* a run that ended without launching the server returned a failure
FailureReturned ==
  (bpc = "done" /\ ~ServerLaunched) => (~ok(bret) /\ "server" \notin RangeOf(bsteps))

\* C21 as stated: in every run of startExtension the RPC server is added only
\* after, in this order, the extension-side watcher was started, the manager
\* answered the timeout-bounded probe, registerExtension returned success and
\* the own endpoint was found rebindable; a failed step is returned and no
\* server is launched.
C21_ServerAfterWatcherInEveryRun ==
  /\ ServerLaunched =>
       /\ "ExtensionWatcher" \in services
       /\ Before("watcher", "probe")
       /\ ProbeRegisterSocketServer
  /\ FailureReturned

\* C21 as amended: the RPC server is added only after, in this order, the
\* manager answered the timeout-bounded probe, registerExtension returned
\* success and the own endpoint was found rebindable; the extension-side
\* watcher was started before them in the runs of the overload taking a
\* name, the only one that starts it; a failed step is returned and no
\* server is launched.
C21_ServerAfterProbeRegisterSocket ==
  /\ ServerLaunched =>
       /\ ProbeRegisterSocketServer
       /\ bform = "name" =>
            ("ExtensionWatcher" \in services /\ Before("watcher", "probe"))
       /\ bform = "path" => "watcher" \notin RangeOf(bsteps)
  /\ FailureReturned

\* C21 witness: the overload taking a name launched the server after it
\* removed a stale file at its own socket path
C21_Witness ==
  /\ ServerLaunched
  /\ bform = "name"
  /\ bpc = "done"
  /\ ok(bret)
  /\ bsteps = <<"watcher", "probe", "register", "options", "socket", "server">>
  /\ services = {"ExtensionWatcher", "ExtensionRunner"}

----------------------------------------------------------------------------
(* SpecGate: the manager starts with required extensions, while extensions *)
(* register and their sockets change                                        *)

MaxRequired == 2
RequiredNames == {"a", "b"}
RequiredLists ==
  UNION { [1 .. n -> RequiredNames] : n \in 0 .. MaxRequired }

InitGate ==
  /\ FLAGS_extensions_timeout = <<"0">>
  /\ FLAGS_disable_extensions \in BOOLEAN
  /\ endpoint \in [PathIds -> {"missing", "up"}]
  /\ \A p \in PathIds \ {0} : endpoint[p] = "missing"
  /\ DelayIdle
  /\ ProbeIdle
  /\ CallIdle
  /\ fatal_ = TRUE
  /\ ExtIdle
  /\ MgrIdle
  /\ bpc = "idle"
  /\ bform = "path"
  /\ bret = NoStatus
  /\ ext_status = NoExtStatus
  /\ optionsAsked = FALSE
  /\ ownFile \in FileStates
  /\ ownTouched = FALSE
  /\ active = {}
  /\ bsteps = <<>>
  /\ gpc = "idle"
  /\ gform \in {"default", "path"}
  /\ required \in RequiredLists
  /\ gi = 0
  /\ waited = FALSE
  /\ gret = NoStatus
  /\ extList = [n \in ExtNames |-> FALSE]
  /\ answered = {}
  /\ everListed = {}
  /\ LoadIdle
  /\ answers = NoAnswers

notGate == <<flagVars, extVars, mgrVars, loadVars, answers, probeVars, cpc, call, probed, rpcs,
             rpcResult, response, ret, lastReject, bpc, bform, bret, ext_status,
             optionsAsked, active, bsteps>>

GateCall ==
  /\ \E form \in {"default", "path"} : GateEnter(form)
  /\ UNCHANGED <<notGate, endpoint>>
GateDelay == GateBegin /\ UNCHANGED <<notGate, endpoint, ownFile, ownTouched, services>>
GateProbe == GateAttempt /\ UNCHANGED <<notGate, endpoint, ownFile, ownTouched, services>>
GateDelayed == GateReturn /\ UNCHANGED <<notGate, endpoint, ownFile, ownTouched, services>>

\* an extension registers with the manager, or is deregistered
GateListingChange ==
  /\ gpc \in {"gate", "wait"}
  /\ \E n \in ExtNames :
       /\ extList' = [extList EXCEPT ![n] = ~@]
       /\ everListed' = everListed \cup {n}
  /\ UNCHANGED <<gpc, gform, required, gi, waited, gret, answered>>
  /\ UNCHANGED <<notGate, endpoint, delayVars, ownFile, ownTouched, services>>

\* the manager's socket, or an extension's, changes what it answers
GateSocketChange ==
  /\ gpc \in {"gate", "wait"}
  /\ \E p \in {0} \cup {UuidOf(n) : n \in ExtNames}, s \in {"missing", "up", "bad"} :
       /\ p = 0 => s # "bad"
       /\ EndpointChange(p, s)
  /\ UNCHANGED <<notGate, gateVars, delayVars, ownFile, ownTouched, services>>

NextGate ==
  \/ GateCall
  \/ GateDelay
  \/ GateProbe
  \/ GateDelayed
  \/ GateListingChange
  \/ GateSocketChange

SpecGate == InitGate /\ [][NextGate]_vars

RequiredSet == { required[i] : i \in 1 .. Len(required) }

\* the gate ran: the socket check passed and the list was not empty
GateRan == gpc = "done" /\ gi >= 1

NotAutoloaded(name) == Status(1, "Extension not autoloaded: " \o name)

\* C12 as stated: startup succeeds only when every required name was listed
\* and pinged with success during the gate, and every required name that
\* never appeared makes startup return code 1 "Extension not autoloaded: "
\* with that name.
C12_EveryMissingNameReported ==
  GateRan =>
    /\ ok(gret) => RequiredSet \subseteq answered
    /\ \A n \in RequiredSet \ everListed : gret = NotAutoloaded(n)

\* C12 as amended: startup succeeds only when every required name was listed
\* and pinged with success during the gate; a required name that never
\* appeared makes startup fail, with code 1 "Extension not autoloaded: " and
\* that name when it is the name the gate stopped at.
C12_GatePassedByAnsweredOnly ==
  GateRan =>
    /\ ok(gret) => /\ RequiredSet \subseteq answered
                   /\ RequiredSet \subseteq everListed
                   /\ gi = Len(required)
    /\ \A n \in RequiredSet \ everListed :
         /\ ~ok(gret)
         /\ required[gi] = n => gret = NotAutoloaded(n)

\* C12 witness: the first required name answered, the second never appeared
C12_Witness ==
  /\ GateRan
  /\ required = <<"a", "b">>
  /\ "a" \in answered
  /\ "b" \notin everListed
  /\ gret = NotAutoloaded("b")

\* C13: once the gate has waited for the first required extension, the
\* prober of a later one stops after its first failed attempt and never
\* sleeps, whether the name was not listed or its ping failed.
C13_LaterExtensionNeverWaits ==
  (gpc = "wait" /\ waited) => (sleeps = 0 /\ attempts <= 1)

\* a file is at the path
FileExists(f) == f \in {"readonly", "stuck", "stale"}
\* a file is at the path, is writable and can be removed
FileRemovable(f) == f = "stale"
\* no file is at the path, its directory exists and is writable
FileCreatable(f) == f = "absent"

\* the manager's own socket path has been checked and the check failed
ManagerSocketRefused ==
  /\ gpc = "done"
  /\ ownTouched
  /\ ~ok(gret)
  /\ services = {}

\* the step of startExtensionManager that runs socketWritable
SocketChecked == gpc = "idle" /\ gpc' # "idle" /\ ownTouched'

\* C22: socketWritable returns success only when a file was at the address,
\* was writable and has been removed, or when no file was there and the
\* parent directory exists and is writable; after a success no file is at
\* the address.  In every failure case it removes nothing, and
\* startExtensionManager returns that failure having started neither the
\* watcher nor the RPC server.
C22_SocketWritableOnlyWhenRebindable ==
  /\ [](ManagerServices \cap services # {} =>
         (ownTouched /\ FileCreatable(ownFile)))
  /\ []((ownTouched /\ ~FileCreatable(ownFile)) => ManagerSocketRefused)
  /\ [][SocketChecked =>
          IF FileRemovable(ownFile) \/ FileCreatable(ownFile)
            THEN /\ ~FileExists(ownFile')
                 /\ FileCreatable(ownFile')
                 /\ ~ManagerSocketRefused'
            ELSE /\ ownFile' = ownFile
                 /\ ManagerSocketRefused'
                 /\ gret' = socketWritable(ownFile, getExtensionSocket(0)).st]_vars

\* C22 witness: a file at the manager's socket path could not be removed; it
\* is still there and startExtensionManager returned without a service
C22_Witness ==
  /\ ManagerSocketRefused
  /\ ownFile = "stuck"
  /\ gret = Status(1, "Cannot remove extension socket: " \o getExtensionSocket(0))

----------------------------------------------------------------------------
(* SpecLoad: the loaders run on a loadfile *)

MaxLines == 2

RawLines ==
  { <<>>,
    <<" ">>,
    <<"#", "note">>,
    <<" ", ";", "note">>,
    <<"/opt/ext/">>,
    <<"/opt/ext/", "good", ".ext">>,
    <<" ", "/opt/ext/", "other", ".ext", " ">>,
    <<"/tmp/", "loose", ".ext">>,
    <<"/opt/ext/", "mod", ".so">> }

LoadFiles ==
  { [readable |-> r, lines |-> ls] :
      r \in BOOLEAN, ls \in UNION { [1 .. n -> RawLines] : n \in 0 .. MaxLines } }

InitLoad ==
  /\ FLAGS_extensions_timeout = <<"3">>
  /\ FLAGS_disable_extensions \in BOOLEAN
  /\ endpoint = [p \in PathIds |-> "missing"]
  /\ DelayIdle
  /\ ProbeIdle
  /\ CallIdle
  /\ fatal_ = TRUE
  /\ ExtIdle
  /\ MgrIdle
  /\ BootIdle
  /\ GateIdle
  /\ FLAGS_extension \in {<<>>, <<"/home/dev/", "try", ".ext">>}
  /\ loadfile \in LoadFiles
  /\ ~loadfile.readable => loadfile.lines = <<>>
  /\ lpc = "idle"
  /\ lkind \in {EXTENSION, MODULE_TYPE}
  /\ lform \in {"default", "file"}
  /\ lrest = <<>>
  /\ supervised = <<>>
  /\ loaded = <<>>
  /\ all_loaded = TRUE
  /\ lret = NoStatus
  /\ answers = NoAnswers

notLoad == <<flagVars, endpoint, delayVars, probeVars, callVars, extVars,
             mgrVars, bootVars, gateVars, answers>>

LoadCall ==
  /\ \E kind \in {EXTENSION, MODULE_TYPE}, form \in {"default", "file"} :
       LoadEnter(kind, form)
  /\ UNCHANGED notLoad
LoadOneLine == LoadLine /\ UNCHANGED notLoad
LoadDone == LoadReturn /\ UNCHANGED notLoad

NextLoad == LoadCall \/ LoadOneLine \/ LoadDone

SpecLoad == InitLoad /\ [][NextLoad]_vars

\* the loader ran and returned a status
LoaderReturned == lpc = "done" /\ lret # NoStatus

\* the paths the loader handed to the supervisor from the file (the path of
\* --extension is handed over first)
FromFile ==
  IF lkind = EXTENSION /\ FLAGS_extension # <<>> THEN Tail(supervised)
                                                ELSE supervised

IsCommentOrBlank(line) ==
  Trim(line) = <<>> \/ Head(Trim(line)) \in {"#", ";"}

OnlyCommentsAndBlanks ==
  /\ loadfile.readable
  /\ \A i \in 1 .. Len(loadfile.lines) : IsCommentOrBlank(loadfile.lines[i])

\* C14: loading a readable loadfile of only comment lines and blank lines
\* returns success with zero candidates, for loadExtensions and loadModules.
C14_CommentsOnlyLoadSucceeds ==
  (LoaderReturned /\ OnlyCommentsAndBlanks) =>
    /\ ok(lret)
    /\ FromFile = <<>>
    /\ loaded = <<>>

\* what C15 says of an accepted line, on the trimmed line
Accepted(path) ==
  /\ path # <<>>
  /\ Head(path) \notin {"#", ";"}
  /\ path[Len(path)] \notin DirectoryTokens
  /\ Head(path) # "/tmp/"
  /\ path[Len(path)] = ".ext"

\* C15: for a readable extension loadfile the paths handed to the supervisor
\* from the file are the trimmed lines that are non-empty, not comments, not
\* directories, under a safe directory and carry the extension suffix, in the
\* file's order; rejected lines stop nothing and the load returns success; an
\* unreadable loadfile returns a failure.
C15_ExactlyTheVettedLines ==
  (LoaderReturned /\ lkind = EXTENSION) =>
    IF loadfile.readable
      THEN /\ ok(lret)
           /\ FromFile = SelectSeq([i \in 1 .. Len(loadfile.lines) |->
                                      Trim(loadfile.lines[i])], Accepted)
      ELSE /\ ~ok(lret)
           /\ FromFile = <<>>

\* C15 witness: a rejected line, then an accepted line with white space
\* around it
C15_Witness ==
  /\ LoaderReturned
  /\ lkind = EXTENSION
  /\ loadfile.lines = << <<"/tmp/", "loose", ".ext">>,
                         <<" ", "/opt/ext/", "other", ".ext", " ">> >>
  /\ FromFile = << <<"/opt/ext/", "other", ".ext">> >>
  /\ ok(lret)

====
